---- MODULE Spec2Model ----
(***************************************************************************)
(* Model of scripts/show_azure.py: validate_config, process_experiment,     *)
(* get_results_from_json and the command-line entry point.                  *)
(*                                                                          *)
(* Numbers read from result.txt are kept in hundredths (the float 0.5 is    *)
(* the integer 50), so the percentage sum(valid)/len(valid)*100 of the code *)
(* is the rational num/den with num the sum of the hundredths and den the   *)
(* number of valid values.                                                  *)
(***************************************************************************)
EXTENDS Integers, Sequences, FiniteSets, TLC

\* ------------------------------------------------------------------ bounds
MaxExp == 2        \* experiments in the configuration of a CLI run
MaxExpLib == 1     \* experiments when get_results_from_json is called directly
MaxDirsProc == 2   \* leading domains whose directory may exist (single worker)
MaxEntriesProc == 2 \* entries of all domain directories together (single worker)

\* ------------------------------------------------------- program constants
RequiredKeysShort == <<"exp_name", "a11y_backend", "som_origin">>

RequiredKeys == <<"exp_name", "a11y_backend", "som_origin", "model_name">>

Domains ==
  <<"chrome", "libreoffice_calc", "libreoffice_writer", "vlc", "vs_code",
    "settings", "windows_calc", "clock", "msedge", "file_explorer",
    "microsoft_paint", "notepad">>

Columns ==
  <<"exp_name", "uia_value", "som_origin", "model">> \o Domains \o <<"*errors*">>

Range(s) == {s[k] : k \in DOMAIN s}

SeqsUpTo(S, n) == UNION {[1..k -> S] : k \in 0..n}

\* ------------------------------------------------------------- cell values
\* Python values held in a row: None, a str, an int, a float.
None == [t |-> "none"]

Str(s) == [t |-> "str", s |-> s]

IntCell(n) == [t |-> "int", n |-> n]

\* a finite float, value c/100
Float(c) == [nan |-> FALSE, c |-> c]

\* np.nan / float("nan")
NaN == [nan |-> TRUE, c |-> 0]

IsNaN(x) == x.nan

\* the float num/den (a percentage)
Num(num, den) == [t |-> "num", num |-> num, den |-> den]

\* ---------------------------------------------------------- configuration
\* One (exp_name, exp_details) item of config.items().
Backends == {"uia", "win32"}

Item(id, keys, backend) == [id |-> id, keys |-> keys, a11y_backend |-> backend]

ExpId(k) == <<"expA", "expB", "expC", "expD">>[k]

\* exp_details.get(key, default) for the keys the model gives a value
Get(item, key, default) ==
  IF key \in item.keys
    THEN (CASE key = "a11y_backend" -> item.a11y_backend
            [] key = "som_origin" -> "gpt"
            [] key = "model_name" -> "gpt-4"
            [] OTHER -> item.id)
    ELSE default

\* the keys an exp_details record of the model may hold
KeyUniverse == {"exp_name", "a11y_backend", "som_origin", "model_name"}

\* configurations of n experiments, in the iteration order of the dict
Configs(n, backends) ==
  {c \in [1..n -> [id : {ExpId(k) : k \in 1..n},
                   keys : SUBSET KeyUniverse,
                   a11y_backend : backends]] :
     \A k \in 1..n : c[k].id = ExpId(k)}

\* ---------------------------------------------------------- validate_config
Ok == [ok |-> TRUE]

ValueError(exp, key) == [ok |-> FALSE, exp |-> exp, key |-> key]

\* inner loop: for key in required_keys
RECURSIVE CheckKeys(_, _)
CheckKeys(item, k) ==
  IF k > Len(RequiredKeys) THEN Ok
  ELSE IF RequiredKeys[k] \notin item.keys
         THEN ValueError(item.id, RequiredKeys[k])
         ELSE CheckKeys(item, k + 1)

\* outer loop: for exp_name, exp_details in config.items()
RECURSIVE ValidateFrom(_, _)
ValidateFrom(cfg, e) ==
  IF e > Len(cfg) THEN Ok
  ELSE LET r == CheckKeys(cfg[e], 1)
       IN IF r.ok THEN ValidateFrom(cfg, e + 1) ELSE r

validate_config(cfg) == ValidateFrom(cfg, 1)

\* ------------------------------------------------------------- results tree
\* What a result.txt may hold.
Texts == {"0", "0.5", "1.0\n", "2.0", "-0.5", "nan", "abc"}

\* str.strip()
Strip(t) == IF t = "1.0\n" THEN "1.0" ELSE t

\* float(text): a float, or the ValueError of an unparseable text
BadFloat == [nan |-> FALSE, c |-> 0, bad |-> TRUE]

ParseFloat(t) ==
  CASE t = "0" -> Float(0)
    [] t = "0.5" -> Float(50)
    [] t = "1.0" -> Float(100)
    [] t = "2.0" -> Float(200)
    [] t = "-0.5" -> Float(-50)
    [] t = "nan" -> NaN
    [] OTHER -> BadFloat

\* One name returned by os.listdir(domain_path): a task directory with or
\* without a result.txt, or an entry that is not a directory.
PlainFile == [isdir |-> FALSE, hasfile |-> FALSE, text |-> ""]

TaskNoFile == [isdir |-> TRUE, hasfile |-> FALSE, text |-> ""]

Task(text) == [isdir |-> TRUE, hasfile |-> TRUE, text |-> text]

Entries == {PlainFile, TaskNoFile} \cup {Task(t) : t \in Texts}

\* State of <results_path>/<domain>.
Unread == [exists |-> FALSE, oserror |-> FALSE, entries |-> <<>>, read |-> FALSE]

NoDir == [exists |-> FALSE, oserror |-> FALSE, entries |-> <<>>, read |-> TRUE]

\* a directory whose listing raises OSError (permission, I/O)
ListErr == [exists |-> TRUE, oserror |-> TRUE, entries |-> <<>>, read |-> TRUE]

Dir(l) == [exists |-> TRUE, oserror |-> FALSE, entries |-> l, read |-> TRUE]

\* the states of the k-th domain directory when at most maxDirs leading
\* domains may exist and the directory may hold up to maxTasks entries
DirStates(k, maxDirs, maxTasks) ==
  IF k <= maxDirs
    THEN {NoDir, ListErr} \cup {Dir(l) : l \in SeqsUpTo(Entries, maxTasks)}
    ELSE {NoDir}

\* the trees of a run of the script: only chrome may exist, with one task
SmallDirStates(k) ==
  IF k = 1
    THEN {NoDir, ListErr, Dir(<<TaskNoFile>>), Dir(<<Task("1.0\n")>>)}
    ELSE {NoDir}

\* ------------------------------------------------------- process_experiment
\* os.path.isfile(<domain_path>/<task>/result.txt)
IsFile(e) == e.isdir /\ e.hasfile

\* for task in os.listdir(domain_path): the list task_results and the
\* increments of errs and of the warning and error log lines
RECURSIVE ReadTasks(_, _)
ReadTasks(entries, acc) ==
  IF entries = <<>> THEN acc
  ELSE LET e == Head(entries)
           r == ParseFloat(Strip(e.text))
           nxt ==
             IF IsFile(e)
               THEN IF "bad" \in DOMAIN r
                      THEN [acc EXCEPT !.task_results = Append(@, NaN),
                                       !.errs = @ + 1, !.error = @ + 1]
                      ELSE [acc EXCEPT !.task_results = Append(@, r)]
               ELSE [acc EXCEPT !.task_results = Append(@, NaN),
                                !.errs = @ + 1, !.warning = @ + 1]
       IN ReadTasks(Tail(entries), nxt)

RECURSIVE Sum(_)
Sum(s) == IF s = <<>> THEN 0 ELSE Head(s).c + Sum(Tail(s))

ValidResults(task_results) == SelectSeq(task_results, LAMBDA x : ~IsNaN(x))

AggregateAllTasks(task_results) ==
  IF task_results # <<>>
    THEN LET valid_results == ValidResults(task_results)
         IN IF valid_results # <<>>
              THEN Num(Sum(valid_results), Len(task_results))
              ELSE None
    ELSE None

AggregateSumOnly(task_results) ==
  IF task_results # <<>>
    THEN LET valid_results == ValidResults(task_results)
         IN IF valid_results # <<>>
              THEN Num(Sum(valid_results), 1)
              ELSE None
    ELSE None

\* row[domain] of an existing, listable domain directory
DomainAggregate(task_results) ==
  IF task_results # <<>>
    THEN LET valid_results == ValidResults(task_results)
         IN IF valid_results # <<>>
              THEN Num(Sum(valid_results), Len(valid_results))
              ELSE None
    ELSE None

\* row = {col: None for col in columns} and the four descriptive fields
NewRow(cols, item) ==
  [[c \in Range(cols) |-> None] EXCEPT
     !["exp_name"] = Str(item.id),
     !["uia_value"] = Str(IF Get(item, "a11y_backend", "") = "uia"
                            THEN "check" ELSE "cross"),   \* the two glyphs
     !["som_origin"] = Str(Get(item, "som_origin", "N/A")),
     !["model"] = Str(Get(item, "model_name", "Unknown"))]

\* ----------------------------------------------------------------- markdown
Txt(cell) == [t |-> "txt", of |-> cell]

Empty == [t |-> "empty"]

HeaderLine(cols) == [k \in 1..Len(cols) |-> Txt(Str(cols[k]))]

SeparatorLine(cols) == [k \in 1..Len(cols) |-> Txt(Str("---"))]

\* str(row[col]) if row[col] is not None else ""
RowMarkdown(row, cols) ==
  [k \in 1..Len(cols) |-> IF row[cols[k]] # None THEN Txt(row[cols[k]]) ELSE Empty]

\* -------------------------------------------------------------------- state
VARIABLES
  entry,     \* "cli": the script is run; "lib": get_results_from_json is
             \* called by an importer; "proc": process_experiment is called
  pc,        \* position of the main thread
  config,    \* the loaded configuration, a sequence of items in dict order
  columns,   \* the list columns of get_results_from_json
  output,    \* the StringIO buffer, a sequence of lines
  outfile,   \* the output file
  wpc,       \* per experiment: state of its process_experiment invocation
  widx,      \* per experiment: number of domains its loop has finished
  errs,      \* per experiment: the local errs
  rows,      \* the row dicts, by reference
  tree,      \* per experiment and domain: what the worker found on disk
  results,   \* the list built from executor.map: references of rows
  log,       \* number of lines logged per level
  raised,    \* the exception caught by the entry point, if any
  completed  \* the experiments in the order their invocations ended

vars ==
  <<entry, pc, config, columns, output, outfile, wpc, widx, errs, rows, tree,
    results, log, raised, completed>>

N == Len(config)

NoRow == [c \in {"unallocated"} |-> None]

NoFile == [exists |-> FALSE, lines |-> <<>>]

\* the row dict a process_experiment invocation creates and fills
RowRefShared(i) == 1

RowRef(i) == i

\* where the entry point goes after logging a configuration error: exit(1)
AfterConfigErrorFallThrough == "grfj"

AfterConfigError == "exit1"

InitWith(e, p, cfgs) ==
  /\ entry = e
  /\ pc = p
  /\ config \in cfgs
  /\ columns = IF e = "proc" THEN Columns ELSE <<>>
  /\ output = <<>>
  /\ outfile = NoFile
  /\ wpc = [i \in 1..N |-> IF e = "proc" THEN "pending" ELSE "none"]
  /\ widx = [i \in 1..N |-> 0]
  /\ errs = [i \in 1..N |-> 0]
  /\ rows = [i \in 1..N |-> NoRow]
  /\ tree = [i \in 1..N |-> [d \in Range(Domains) |-> Unread]]
  /\ results = <<>>
  /\ log = [info |-> 0, warning |-> 0, error |-> 0]
  /\ raised = Ok
  /\ completed = <<>>

\* ---------------------------------------------------------------- __main__
\* try: validate_config(config) / except ValueError: log, exit(1)
MainValidate ==
  /\ pc = "main"
  /\ LET r == validate_config(config)
     IN IF r.ok
          THEN /\ pc' = "grfj"
               /\ UNCHANGED <<log, raised>>
          ELSE /\ raised' = r
               /\ log' = [log EXCEPT !.error = @ + 1]
               /\ pc' = AfterConfigError
  /\ UNCHANGED <<completed, entry, config, columns, output, outfile, wpc, widx, errs,
                 rows, tree, results>>

\* ---------------------------------------------------- get_results_from_json
\* columns, the two header lines, and executor.map submitting every item
GetResultsStart ==
  /\ pc = "grfj"
  /\ columns' = Columns
  /\ output' = <<HeaderLine(Columns), SeparatorLine(Columns)>>
  /\ wpc' = [i \in 1..N |-> "pending"]
  /\ pc' = "pool"
  /\ UNCHANGED <<completed, entry, config, outfile, widx, errs, rows, tree, results,
                 log, raised>>

\* executor.map yields the results in the order of submission
CollectReadyAnyDone(i) == wpc[i] = "returned" /\ RowRef(i) \notin Range(results)

CollectReady(i) == i = Len(results) + 1 /\ wpc[i] = "returned"

Collect(i) ==
  /\ pc = "pool"
  /\ Len(results) < N
  /\ CollectReady(i)
  /\ results' = Append(results, RowRef(i))
  /\ UNCHANGED <<completed, entry, pc, config, columns, output, outfile, wpc, widx,
                 errs, rows, tree, log, raised>>

\* the next result is an exception: the iterator cancels the futures that
\* have not started and the exception leaves list(...)
CollectRaise ==
  /\ pc = "pool"
  /\ Len(results) < N
  /\ wpc[Len(results) + 1] = "raised"
  /\ wpc' = [i \in 1..N |-> IF wpc[i] = "pending" THEN "cancelled" ELSE wpc[i]]
  /\ pc' = "unwind"
  /\ UNCHANGED <<completed, entry, config, columns, output, outfile, widx, errs, rows,
                 tree, results, log, raised>>

\* leaving the with block waits for the running workers, then the
\* exception propagates out of get_results_from_json uncaught
Propagate ==
  /\ pc = "unwind"
  /\ \A i \in 1..N : wpc[i] \notin {"pending", "started"}
  /\ pc' = "crashed"
  /\ UNCHANGED <<completed, entry, config, columns, output, outfile, wpc, widx, errs,
                 rows, tree, results, log, raised>>

RECURSIVE RenderRows(_, _, _)
RenderRows(res, heap, cols) ==
  IF res = <<>> THEN <<>>
  ELSE <<RowMarkdown(heap[Head(res)], cols)>> \o RenderRows(Tail(res), heap, cols)

\* the rows are rendered, the file is written in one go, the path is logged
WriteOutput ==
  /\ pc = "pool"
  /\ Len(results) = N
  /\ output' = output \o RenderRows(results, rows, columns)
  /\ outfile' = [exists |-> TRUE, lines |-> output']
  /\ log' = [log EXCEPT !.info = @ + 1]
  /\ pc' = IF entry = "cli" THEN "exit0" ELSE "returned"
  /\ UNCHANGED <<completed, entry, config, columns, wpc, widx, errs, rows, tree,
                 results, raised>>

\* ------------------------------------------------------- process_experiment
WorkersRun == pc \in {"pool", "unwind", "proc"}

\* the row is created and given its descriptive fields; building the path
\* reads exp_details["model_name"], a KeyError when the key is missing
WorkerStart(i) ==
  /\ WorkersRun
  /\ wpc[i] = "pending"
  /\ rows' = [rows EXCEPT ![RowRef(i)] = NewRow(columns, config[i])]
  /\ errs' = [errs EXCEPT ![i] = 0]
  /\ wpc' = [wpc EXCEPT ![i] =
               IF "model_name" \in config[i].keys THEN "started" ELSE "raised"]
  /\ completed' = IF "model_name" \in config[i].keys
                    THEN completed ELSE Append(completed, i)
  /\ UNCHANGED <<entry, pc, config, columns, output, outfile, widx, tree,
                 results, log, raised>>

\* one iteration of the loop over the twelve domains
WorkerDomain(i, dirStates) ==
  /\ WorkersRun
  /\ wpc[i] = "started"
  /\ widx[i] < Len(Domains)
  /\ LET k == widx[i] + 1
         domain == Domains[k]
     IN \E ds \in dirStates :
          /\ tree' = [tree EXCEPT ![i][domain] = ds]
          /\ IF ~ds.exists
               THEN /\ rows' = [rows EXCEPT ![RowRef(i)][domain] = None]
                    /\ widx' = [widx EXCEPT ![i] = k]
                    /\ UNCHANGED <<wpc, errs, log, completed>>
               ELSE IF ds.oserror
                 THEN /\ wpc' = [wpc EXCEPT ![i] = "raised"]
                      /\ completed' = Append(completed, i)
                      /\ UNCHANGED <<rows, widx, errs, log>>
                 ELSE LET acc == ReadTasks(ds.entries,
                                   [task_results |-> <<>>, errs |-> errs[i],
                                    warning |-> 0, error |-> 0])
                      IN /\ rows' = [rows EXCEPT ![RowRef(i)][domain] =
                                       DomainAggregate(acc.task_results)]
                         /\ errs' = [errs EXCEPT ![i] = acc.errs]
                         /\ log' = [log EXCEPT !.warning = @ + acc.warning,
                                               !.error = @ + acc.error]
                         /\ widx' = [widx EXCEPT ![i] = k]
                         /\ UNCHANGED <<wpc, completed>>
  /\ UNCHANGED <<entry, pc, config, columns, output, outfile, results, raised>>

\* row["*errors*"] = errs; return row
WorkerReturn(i) ==
  /\ WorkersRun
  /\ wpc[i] = "started"
  /\ widx[i] = Len(Domains)
  /\ rows' = [rows EXCEPT ![RowRef(i)]["*errors*"] = IntCell(errs[i])]
  /\ wpc' = [wpc EXCEPT ![i] = "returned"]
  /\ completed' = Append(completed, i)
  /\ UNCHANGED <<entry, pc, config, columns, output, outfile, widx, errs,
                 tree, results, log, raised>>

\* ----------------------------------------------------------- specifications
\* A run of the script.
Init == InitWith("cli", "main", UNION {Configs(n, {"uia"}) : n \in 0..MaxExp})

Next ==
  \/ MainValidate
  \/ GetResultsStart
  \/ \E i \in 1..N : WorkerStart(i)
  \/ \E i \in 1..N : WorkerDomain(i, SmallDirStates(widx[i] + 1))
  \/ \E i \in 1..N : WorkerReturn(i)
  \/ \E i \in 1..N : Collect(i)
  \/ CollectRaise
  \/ Propagate
  \/ WriteOutput

Spec == Init /\ [][Next]_vars

\* get_results_from_json called directly, the configuration not validated.
InitLib == InitWith("lib", "grfj", UNION {Configs(n, Backends) : n \in 0..MaxExpLib})

NextLib ==
  \/ GetResultsStart
  \/ \E i \in 1..N : WorkerStart(i)
  \/ \E i \in 1..N : WorkerDomain(i, SmallDirStates(widx[i] + 1))
  \/ \E i \in 1..N : WorkerReturn(i)
  \/ \E i \in 1..N : Collect(i)
  \/ CollectRaise
  \/ Propagate
  \/ WriteOutput

SpecLib == InitLib /\ [][NextLib]_vars

\* One process_experiment invocation over every results tree of the bounds.
RECURSIVE EntriesRead(_, _)
EntriesRead(i, k) ==
  IF k = 0 THEN 0 ELSE Len(tree[i][Domains[k]].entries) + EntriesRead(i, k - 1)

ProcDirStates(i) ==
  DirStates(widx[i] + 1, MaxDirsProc, MaxEntriesProc - EntriesRead(i, widx[i]))

InitProc ==
  InitWith("proc", "proc",
           {c \in Configs(1, Backends) : c[1].keys = KeyUniverse})

NextProc ==
  \/ \E i \in 1..N : WorkerStart(i)
  \/ \E i \in 1..N : WorkerDomain(i, ProcDirStates(i))
  \/ \E i \in 1..N : WorkerReturn(i)

SpecProc == InitProc /\ [][NextProc]_vars

TypeOK ==
  /\ entry \in {"cli", "lib", "proc"}
  /\ pc \in {"main", "grfj", "pool", "unwind", "crashed", "exit0", "exit1",
             "returned", "proc"}
  /\ \A i \in 1..N : wpc[i] \in {"none", "pending", "started", "returned",
                                 "raised", "cancelled"}

\* ------------------------------------------------- vocabulary of the claims
\* some experiment record lacks one of the four required keys
LacksKey(cfg) ==
  \E e \in 1..Len(cfg) :
    \E key \in {"exp_name", "a11y_backend", "som_origin", "model_name"} :
      key \notin cfg[e].keys

\* position of a key in the order exp_name, a11y_backend, som_origin, model_name
KeyPos(key) ==
  CASE key = "exp_name" -> 1
    [] key = "a11y_backend" -> 2
    [] key = "som_origin" -> 3
    [] key = "model_name" -> 4

MissingKeys(item) ==
  {key \in {"exp_name", "a11y_backend", "som_origin", "model_name"} :
     key \notin item.keys}

FirstLacking(cfg) ==
  CHOOSE e \in 1..Len(cfg) :
    /\ MissingKeys(cfg[e]) # {}
    /\ \A f \in 1..(e - 1) : MissingKeys(cfg[f]) = {}

FirstMissingKey(item) ==
  CHOOSE key \in MissingKeys(item) :
    \A other \in MissingKeys(item) : KeyPos(key) <= KeyPos(other)

\* no directory check, listing or read of the results tree has happened
NoTreeAccess == \A i \in 1..N : \A d \in Range(Domains) : ~tree[i][d].read

Terminated == pc \in {"exit0", "exit1", "crashed", "returned"}

\* the value of a result text, in hundredths, for the texts that are numbers
TextValue(t) ==
  CASE t = "0" -> 0
    [] t = "0.5" -> 50
    [] t = "1.0\n" -> 100
    [] t = "2.0" -> 200
    [] t = "-0.5" -> -50

NumberTexts == {"0", "0.5", "1.0\n", "2.0", "-0.5"}

\* positions of a listing whose task has a result file holding a number
ValidAt(l) == {k \in 1..Len(l) : l[k].isdir /\ l[k].hasfile /\ l[k].text \in NumberTexts}

RECURSIVE SumOver(_, _)
SumOver(l, ks) ==
  IF ks = {} THEN 0
  ELSE LET k == CHOOSE x \in ks : TRUE
       IN TextValue(l[k].text) + SumOver(l, ks \ {k})

\* the domains whose loop iteration worker i has finished
DoneDomains(i) == {Domains[k] : k \in 1..widx[i]}

\* a domain directory that exists and was listed
Listed(ds) == ds.read /\ ds.exists /\ ~ds.oserror

\* ------------------------------------------------------------------- claims

\* C1: whatever the completion order of the workers, the table written has
\* exactly one data row per experiment and its i-th data row is the row of
\* the i-th experiment of the configuration.
C1_RowsInConfigOrder ==
  outfile.exists =>
    /\ Len(outfile.lines) = 2 + N
    /\ \A i \in 1..N : outfile.lines[2 + i][1] = Txt(Str(config[i].id))

\* the second experiment's worker ended before the first one's
C1_Witness ==
  /\ outfile.exists
  /\ N = 2
  /\ completed = <<2, 1>>
  /\ outfile.lines[3][1] = Txt(Str("expA"))

\* C2: get_results_from_json validates before dispatching: called with a
\* configuration that lacks a required key, no process_experiment invocation
\* starts and no output file is written.
C2_ValidatesBeforeDispatch ==
  (entry = "lib" /\ LacksKey(config)) =>
    /\ \A i \in 1..N : wpc[i] \in {"none", "pending"}
    /\ ~outfile.exists

\* C3: a CLI run whose configuration lacks a required key ends with exit
\* status 1 after an error is logged, without access to the results tree
\* and without output file; a run whose configuration lacks none and whose
\* workers all complete writes the output file and ends with status 0.
C3_CliExitStatus ==
  entry = "cli" =>
    /\ LacksKey(config) =>
         /\ pc \in {"main", "exit1"}
         /\ NoTreeAccess
         /\ ~outfile.exists
         /\ pc = "exit1" => log.error = 1
    /\ (~LacksKey(config) /\ Terminated /\ \A i \in 1..N : wpc[i] = "returned") =>
         /\ pc = "exit0"
         /\ outfile.exists

C3_Witness ==
  /\ pc = "exit1"
  /\ N = 2
  /\ ~LacksKey(<<config[1]>>)
  /\ "model_name" \notin config[2].keys

\* C4: once validation has passed a completed table is always written; a
\* failure met while processing one experiment, a filesystem access error
\* included, never prevents the output file from being written.
C4_TableAlwaysWritten ==
  (entry = "cli" /\ Terminated /\ ~LacksKey(config)) =>
    /\ outfile.exists
    /\ Len(outfile.lines) = 2 + N

\* C5: the *errors* value of a returned row is the number of task
\* directories, over the existing domain directories, whose result.txt is
\* absent or does not parse as a number.
C5_ErrorsCountTaskDirs ==
  \A i \in 1..N :
    wpc[i] = "returned" =>
      rows[i]["*errors*"] =
        IntCell(Cardinality(
          {<<d, k>> \in Range(Domains) \X (1..MaxEntriesProc) :
             /\ Listed(tree[i][d])
             /\ k <= Len(tree[i][d].entries)
             /\ tree[i][d].entries[k].isdir
             /\ \/ ~tree[i][d].entries[k].hasfile
                \/ tree[i][d].entries[k].text \notin (NumberTexts \cup {"nan"})}))

\* C6: a domain field is absent when the directory does not exist, absent
\* when no task yields a valid value, and otherwise the sum of the valid
\* values over their number, times 100 (0.5 and 1.0 give 75; 1.0 and a
\* missing file give 100 with one error).
C6_DomainAggregate ==
  \A i \in 1..N : \A d \in DoneDomains(i) :
    LET ds == tree[i][d]
        ks == ValidAt(ds.entries)
        cell == rows[i][d]
    IN /\ ~ds.exists => cell = None
       /\ (Listed(ds) /\ ks = {}) => cell = None
       /\ (Listed(ds) /\ ks # {}) =>
            /\ cell.t = "num"
            /\ cell.den > 0
            /\ cell.num * Cardinality(ks) = SumOver(ds.entries, ks) * cell.den
       /\ ds.entries = <<Task("0.5"), Task("1.0\n")>> =>
            (cell.t = "num" /\ cell.num = 75 * cell.den)
       /\ ds.entries = <<Task("1.0\n"), TaskNoFile>> =>
            /\ cell.t = "num" /\ cell.num = 100 * cell.den
            /\ errs[i] >= 1

C6_Witness ==
  /\ wpc[1] = "returned"
  /\ tree[1]["chrome"] = Dir(<<Task("1.0\n"), TaskNoFile>>)
  /\ tree[1]["libreoffice_calc"] = Dir(<<>>)
  /\ rows[1]["chrome"] = Num(100, 1)
  /\ rows[1]["libreoffice_calc"] = None
  /\ rows[1]["*errors*"] = IntCell(1)

\* C7: validate_config fails exactly when some record lacks a required key,
\* the error names the first lacking experiment and its first missing key in
\* the order exp_name, a11y_backend, som_origin, model_name, and the
\* configuration is left unchanged.
C7_ValidateFirstViolation ==
  /\ [](pc # "main" =>
          /\ raised.ok <=> ~LacksKey(config)
          /\ ~raised.ok =>
               LET e == FirstLacking(config)
               IN raised = [ok |-> FALSE, exp |-> config[e].id,
                            key |-> FirstMissingKey(config[e])])
  /\ [][config' = config]_vars

C7_Witness ==
  /\ pc = "exit1"
  /\ N = 2
  /\ config[1].keys = {"exp_name", "a11y_backend", "som_origin", "model_name"}
  /\ config[2].keys = {"exp_name", "a11y_backend"}
  /\ raised = [ok |-> FALSE, exp |-> "expB", key |-> "som_origin"]

\* C8 as stated: every domain field is absent or a percentage between 0 and
\* 100, for every content of the result files that parses as a number.
C8_PercentageInRange ==
  \A i \in 1..N : \A d \in DoneDomains(i) :
    \/ rows[i][d] = None
    \/ /\ rows[i][d].t = "num"
       /\ 0 <= rows[i][d].num
       /\ rows[i][d].num <= 100 * rows[i][d].den

\* C8 amended: a domain field is absent or a number; it lies between 0 and
\* 100 whenever every valid value read for the domain lies between 0 and 1.
C8_PercentageInRangeOfUnitValues ==
  \A i \in 1..N : \A d \in DoneDomains(i) :
    \/ rows[i][d] = None
    \/ /\ rows[i][d].t = "num"
       /\ rows[i][d].den > 0
       /\ (\A k \in ValidAt(tree[i][d].entries) :
             /\ 0 <= TextValue(tree[i][d].entries[k].text)
             /\ TextValue(tree[i][d].entries[k].text) <= 100)
          => /\ 0 <= rows[i][d].num
             /\ rows[i][d].num <= 100 * rows[i][d].den

C8_Witness ==
  /\ wpc[1] = "returned"
  /\ tree[1]["chrome"] = Dir(<<Task("0.5"), Task("1.0\n")>>)
  /\ rows[1]["chrome"] = Num(150, 2)

\* C9: for every listed domain directory, the number of values that enter
\* the mean plus the number of error-counter increments the domain caused
\* equals the number of entries listed.
C9_EveryEntryAccounted ==
  [][\A i \in 1..N : \A d \in Range(Domains) :
       (~tree[i][d].read /\ Listed(tree'[i][d])) =>
         (IF rows'[i][d] = None THEN 0 ELSE rows'[i][d].den)
           + (errs'[i] - errs[i]) = Len(tree'[i][d].entries)]_vars

\* C10: a row is written only by the invocation of its own experiment,
\* workers write neither the columns list nor the configuration, a row is
\* never modified after it is returned, and the row serialized into the
\* table equals the row the worker returned.
C10_RowOwnership ==
  /\ [][/\ \A r \in 1..N :
            rows'[r] # rows[r] =>
              /\ wpc[r] \in {"pending", "started"}
              /\ wpc'[r] # wpc[r] \/ widx'[r] # widx[r]
              /\ \A j \in (1..N) \ {r} : wpc'[j] = wpc[j] /\ widx'[j] = widx[j]
        /\ config' = config
        /\ columns' # columns => pc = "grfj"]_vars
  /\ [](outfile.exists =>
          \A i \in 1..N :
            /\ wpc[i] = "returned"
            /\ outfile.lines[2 + i] = RowMarkdown(rows[i], Columns)
            /\ rows[i]["exp_name"] = Str(config[i].id)
            /\ rows[i]["*errors*"] = IntCell(errs[i]))

\* both workers ran interleaved and both rows are in the table
C10_Witness ==
  /\ outfile.exists
  /\ N = 2
  /\ completed = <<2, 1>>
  /\ rows[1]["chrome"] = Num(100, 1)
  /\ rows[2]["*errors*"] = IntCell(1)

====
